---- MODULE Spec2Model ----
(***************************************************************************)
(* Street lamp controller (src/app.py).                                    *)
(*                                                                         *)
(* One decision cycle of the Flask route control_lamp: the request body,   *)
(* the weather provider's answer, the wall clock, the health sensor's      *)
(* draw and the loaded classifier are the environment of the cycle; the    *)
(* handler turns them into one JSON response.                              *)
(*                                                                         *)
(* Units.  Temperatures of the health sensor are integers in hundredths    *)
(* of a degree Celsius (55.0 C = 5500).  Visibility is in tenths of a      *)
(* kilometre (10.0 km = 100).  Instants are seconds since 1970-01-01       *)
(* 00:00 local time.  A sunrise/sunset text is the record of its three     *)
(* tokens: [hour, minute, marker] stands for "<hour>:<minute> <marker>".   *)
(***************************************************************************)
EXTENDS Integers, Sequences, FiniteSets, TLC

VARIABLES
    model,          \* module-level classifier: [loaded, predicts]
    body,           \* JSON body of the POST request
    api,            \* what the weather provider does in this cycle
    vis_km,         \* provider's current.vis_km, tenths of km
    lag,            \* age of the provider's observation, in quarter hours
    today,          \* datetime.now(), seconds since the epoch (local)
    sunrise,        \* provider's astro.sunrise text
    sunset,         \* provider's astro.sunset text
    current_temp,   \* draw of random.uniform(30.0, 65.0), hundredths of C
    pc,             \* "idle" before the handler ran, "done" after
    response,       \* JSON body returned by control_lamp
    http_status,    \* HTTP status code returned by control_lamp
    decide_calls,   \* calls of determine_lamp_action in the cycle
    predict_calls,  \* calls of model.predict in the cycle
    X_weather,      \* argument passed to model.predict (<<>> if not called)
    night           \* outcome of a direct call of is_currently_night

vars == <<model, body, api, vis_km, lag, today, sunrise, sunset, current_temp,
          pc, response, http_status, decide_calls, predict_calls, X_weather,
          night>>

-----------------------------------------------------------------------------
(* Bounds of the model *)

\* the provider's observation is 0..MaxLag quarter hours old
MaxLag == 1
\* sensor draws within TempSpread hundredths of the safety ceiling
TempSpread == 5
\* hour tokens 0..MaxHourText appear in sunrise/sunset texts
MaxHourText == 13

-----------------------------------------------------------------------------
(* Configuration, app.py lines 13-22 *)

FEATURES == <<"humidity", "cloudcover", "visibility", "uvindex",
              "day_of_year", "temp", "precip">>

MAX_SAFE_TEMP_C == 5500

LOCATION == "Kuala Lumpur"

\* bounds of random.uniform(30.0, 65.0)
SENSOR_MIN_C == 3000
SENSOR_MAX_C == 6500

\* visibility cap of the feature mapping, 10.0 km
VIS_CAP == 100

\* fallback night hours of is_currently_night
FALLBACK_SUNRISE_HOUR == 7
FALLBACK_SUNSET_HOUR == 19

-----------------------------------------------------------------------------
(* Lamp actions, the strings returned by determine_lamp_action *)

OFF_DAYTIME == "OFF (Daytime)"
MAX_OUTPUT_FAILSAFE_OVERHEAT == "MAX OUTPUT (System Failsafe: Overheat)"
MAX_OUTPUT_SAFETY_RAIN_FOG == "MAX OUTPUT (Safety Override: Rain/Fog)"
DIMMER_MOTION_DETECTED == "DIMMER OUTPUT (Motion Detected)"
OFF_NO_MOTION == "OFF (No Motion Detected)"

-----------------------------------------------------------------------------
(* Calendar arithmetic of datetime: proleptic Gregorian calendar *)

IsLeap(y) == (y % 4 = 0) /\ ((y % 100 # 0) \/ (y % 400 = 0))

DaysBeforeMonth(y, m) ==
    LET cum == <<0, 31, 59, 90, 120, 151, 181, 212, 243, 273, 304, 334>>
    IN  cum[m] + (IF m > 2 /\ IsLeap(y) THEN 1 ELSE 0)

DaysBeforeYear(y) ==
    LET p == y - 1
    IN  p * 365 + (p \div 4) - (p \div 100) + (p \div 400)

\* proleptic ordinal of a date, day 1 = 0001-01-01 (datetime.toordinal)
Ordinal(y, m, d) == DaysBeforeYear(y) + DaysBeforeMonth(y, m) + d

EpochOrdinal == Ordinal(1970, 1, 1)

\* the instant y-m-d h:mi:s as seconds since the epoch
Instant(y, m, d, h, mi, s) ==
    (Ordinal(y, m, d) - EpochOrdinal) * 86400 + h * 3600 + mi * 60 + s

\* year and day of the year (from 1) of a proleptic ordinal, by the
\* 400-, 100-, 4- and 1-year cycles (datetime._ord2ymd)
YearAndDay(ordinal) ==
    LET n0   == ordinal - 1
        n400 == n0 \div 146097
        r400 == n0 % 146097
        n100 == r400 \div 36524
        r100 == r400 % 36524
        n4   == r100 \div 1461
        r4   == r100 % 1461
        n1   == r4 \div 365
        r1   == r4 % 365
        year == n400 * 400 + n100 * 100 + n4 * 4 + n1 + 1
    IN  IF n1 = 4 \/ n100 = 4
        THEN [year |-> year - 1, yday |-> 366]
        ELSE [year |-> year, yday |-> r1 + 1]

\* datetime.fromtimestamp(t): the broken-down local time of an instant
fromtimestamp(t) ==
    LET yd   == YearAndDay((t \div 86400) + EpochOrdinal)
        sod  == t % 86400
        mon  == CHOOSE m \in 1..12 :
                    /\ DaysBeforeMonth(yd.year, m) < yd.yday
                    /\ (m = 12 \/ yd.yday <= DaysBeforeMonth(yd.year, m + 1))
    IN  [year |-> yd.year, month |-> mon,
         day |-> yd.yday - DaysBeforeMonth(yd.year, mon),
         hour |-> sod \div 3600, minute |-> (sod % 3600) \div 60,
         second |-> sod % 60]

\* calculate_day_of_year(dt): dt.timetuple().tm_yday
calculate_day_of_year(dt) == DaysBeforeMonth(dt.year, dt.month) + dt.day

\* seconds since midnight of a broken-down time
SecondOfDay(dt) == dt.hour * 3600 + dt.minute * 60 + dt.second

-----------------------------------------------------------------------------
(* Time Window Evaluator, app.py lines 60-76 *)

\* datetime.strptime(text, '%I:%M %p') on today's date: %I takes 1..12,
\* %M takes 0..59, %p takes AM or PM; anything else is a ValueError.
\* A parsed text yields its second of the day on the 24-hour clock.
strptime(text) ==
    IF /\ text.hour \in 1..12
       /\ text.minute \in 0..59
       /\ text.marker \in {"AM", "PM"}
    THEN [exc |-> "none",
          sod |-> ((text.hour % 12)
                     + (IF text.marker = "PM" THEN 12 ELSE 0)) * 3600
                  + text.minute * 60]
    ELSE [exc |-> "ValueError", sod |-> 0]

\* the evaluator with the fallback's morning bound taken inclusive
night_fallback_inclusive(now, sunrise_time_str, sunset_time_str) ==
    LET today_dt   == fromtimestamp(now)
        sunrise_dt == strptime(sunrise_time_str)
        sunset_dt  == strptime(sunset_time_str)
    IN  IF sunrise_dt.exc # "none" \/ sunset_dt.exc # "none"
        THEN [raised |-> FALSE,
              ret |-> (today_dt.hour <= FALLBACK_SUNRISE_HOUR
                       \/ today_dt.hour >= FALLBACK_SUNSET_HOUR)]
        ELSE [raised |-> FALSE,
              ret |-> (SecondOfDay(today_dt) < sunrise_dt.sod
                       \/ SecondOfDay(today_dt) >= sunset_dt.sod)]

\* is_currently_night(sunrise_time_str, sunset_time_str) with
\* today = datetime.now() = fromtimestamp(now).  sunrise_dt and sunset_dt
\* carry today's date, so the comparison is one of seconds of the day.
\* raised: an exception leaves the function (only ValueError is caught).
is_currently_night(now, sunrise_time_str, sunset_time_str) ==
    LET today_dt   == fromtimestamp(now)
        sunrise_dt == strptime(sunrise_time_str)
        sunset_dt  == strptime(sunset_time_str)
        thrown     == IF sunrise_dt.exc # "none" THEN sunrise_dt.exc
                      ELSE sunset_dt.exc
    IN  IF thrown = "ValueError"
        THEN \* except ValueError
             [raised |-> FALSE,
              ret |-> (today_dt.hour < FALLBACK_SUNRISE_HOUR
                       \/ today_dt.hour >= FALLBACK_SUNSET_HOUR)]
        ELSE IF thrown # "none"
        THEN [raised |-> TRUE, ret |-> FALSE]
        ELSE [raised |-> FALSE,
              ret |-> (SecondOfDay(today_dt) < sunrise_dt.sod
                       \/ SecondOfDay(today_dt) >= sunset_dt.sod)]

-----------------------------------------------------------------------------
(* Health Monitor Adapter, app.py lines 25-39 *)

\* round(current_temp, 1) on a value given in hundredths.  Off a tie the
\* nearest tenth; on a tie that a double holds exactly (x.25, x.75) the
\* even tenth; on any other tie the double is a little below or above
\* the tie, and either tenth can come out.
Round1(t) ==
    LET lo == (t \div 10) * 10
        hi == lo + 10
        r  == t % 10
    IN  IF r < 5 THEN {lo}
        ELSE IF r > 5 THEN {hi}
        ELSE IF t % 25 = 0
             THEN {IF (lo \div 10) % 2 = 0 THEN lo ELSE hi}
             ELSE {lo, hi}

\* read_health_sensor() for the draw temp, reported as rounded
read_health_sensor(temp, rounded) ==
    [current_temp_c  |-> rounded,
     max_safe_temp_c |-> MAX_SAFE_TEMP_C,
     is_overheated   |-> temp > MAX_SAFE_TEMP_C]

-----------------------------------------------------------------------------
(* Weather provider and Feature Mapper, app.py lines 81-126 *)

\* keys of data['current'] in the order fetch_real_time_weather reads them
CurrentKeys == <<"last_updated_epoch", "temp_c", "humidity", "precip_mm",
                 "cloud", "vis_km", "uv">>

\* data['current'] of the provider's JSON: a reading taken observed_at,
\* with visibility vis; the reply "no_uv" lacks the key 'uv'
ProviderCurrent(reply, observed_at, vis) ==
    LET full == [last_updated_epoch |-> observed_at, temp_c |-> 28,
                 humidity |-> 80, precip_mm |-> 0, cloud |-> 75,
                 vis_km |-> vis, uv |-> 1]
    IN  IF reply = "no_uv"
        THEN [k \in (DOMAIN full) \ {"uv"} |-> full[k]]
        ELSE full

Min(a, b) == IF a < b THEN a ELSE b

\* the success branch of fetch_real_time_weather (lines 93-119): the
\* time-based features and the mapping of the provider's fields
weather_success(current, astro, now) ==
    LET current_date == fromtimestamp(current.last_updated_epoch)
        is_night     ==
            is_currently_night(now, astro.sunrise, astro.sunset).ret
    IN  [status |-> "success",
         data |-> [temp |-> current.temp_c,
                   humidity |-> current.humidity,
                   precip |-> current.precip_mm,
                   cloudcover |-> current.cloud,
                   visibility |-> Min(current.vis_km, VIS_CAP),
                   uvindex |-> current.uv,
                   day_of_year |-> calculate_day_of_year(current_date),
                   is_night_time |-> is_night],
         astronomy |-> [sunrise |-> astro.sunrise,
                        sunset |-> astro.sunset]]

\* the first key of CurrentKeys that current lacks, 0 if none
FirstMissing(current) ==
    LET missing == {i \in 1..Len(CurrentKeys) :
                        CurrentKeys[i] \notin DOMAIN current}
    IN  IF missing = {} THEN 0
        ELSE CHOOSE i \in missing : \A j \in missing : i <= j

\* a fetch that goes on with the payload at hand when the request failed
fetch_ignoring_transport(reply, current, astro, now) ==
    IF FirstMissing(current) # 0
    THEN [status |-> "error",
          message |-> "Failed to parse weather data structure",
          missing_key |-> CurrentKeys[FirstMissing(current)]]
    ELSE weather_success(current, astro, now)

\* fetch_real_time_weather(): reply is what requests.get does, current
\* and astro are the parts of the JSON, now is the wall clock
fetch_real_time_weather(reply, current, astro, now) ==
    IF reply = "timeout"
    THEN \* except requests.exceptions.RequestException
         [status |-> "error",
          message |-> "Could not connect to WeatherAPI"]
    ELSE IF FirstMissing(current) # 0
    THEN \* except KeyError
         [status |-> "error",
          message |-> "Failed to parse weather data structure",
          missing_key |-> CurrentKeys[FirstMissing(current)]]
    ELSE weather_success(current, astro, now)

-----------------------------------------------------------------------------
(* Decision Engine, app.py lines 129-171 *)

\* model_clf.predict(X)[0]: the classifier is a black box, model_clf.predicts
\* is its answer on the feature row of this cycle
predict(model_clf, X) == model_clf.predicts

\* the chain with the failsafe ahead of the daytime gate
decide_failsafe_first(weather_features, is_motion_detected, model_clf, health_status) ==
    LET is_night_time ==
            IF "is_night_time" \in DOMAIN weather_features
            THEN weather_features.is_night_time ELSE FALSE
        X == [i \in 1..Len(FEATURES) |-> weather_features[FEATURES[i]]]
    IN  IF health_status.is_overheated
        THEN [ret |-> MAX_OUTPUT_FAILSAFE_OVERHEAT, predict_calls |-> 0,
              X |-> <<>>]
        ELSE IF ~is_night_time
        THEN [ret |-> OFF_DAYTIME, predict_calls |-> 0, X |-> <<>>]
        ELSE IF predict(model_clf, X) = 1
        THEN [ret |-> MAX_OUTPUT_SAFETY_RAIN_FOG, predict_calls |-> 1,
              X |-> X]
        ELSE IF is_motion_detected
        THEN [ret |-> DIMMER_MOTION_DETECTED, predict_calls |-> 1, X |-> X]
        ELSE [ret |-> OFF_NO_MOTION, predict_calls |-> 1, X |-> X]

\* the chain with the weather check ahead of the failsafe
decide_weather_first(weather_features, is_motion_detected, model_clf, health_status) ==
    LET is_night_time ==
            IF "is_night_time" \in DOMAIN weather_features
            THEN weather_features.is_night_time ELSE FALSE
        X == [i \in 1..Len(FEATURES) |-> weather_features[FEATURES[i]]]
    IN  IF ~is_night_time
        THEN [ret |-> OFF_DAYTIME, predict_calls |-> 0, X |-> <<>>]
        ELSE IF predict(model_clf, X) = 1
        THEN [ret |-> MAX_OUTPUT_SAFETY_RAIN_FOG, predict_calls |-> 1,
              X |-> X]
        ELSE IF health_status.is_overheated
        THEN [ret |-> MAX_OUTPUT_FAILSAFE_OVERHEAT, predict_calls |-> 1,
              X |-> X]
        ELSE IF is_motion_detected
        THEN [ret |-> DIMMER_MOTION_DETECTED, predict_calls |-> 1, X |-> X]
        ELSE [ret |-> OFF_NO_MOTION, predict_calls |-> 1, X |-> X]

\* the chain with the motion rule ahead of the weather check
decide_motion_first(weather_features, is_motion_detected, model_clf, health_status) ==
    LET is_night_time ==
            IF "is_night_time" \in DOMAIN weather_features
            THEN weather_features.is_night_time ELSE FALSE
        X == [i \in 1..Len(FEATURES) |-> weather_features[FEATURES[i]]]
    IN  IF ~is_night_time
        THEN [ret |-> OFF_DAYTIME, predict_calls |-> 0, X |-> <<>>]
        ELSE IF health_status.is_overheated
        THEN [ret |-> MAX_OUTPUT_FAILSAFE_OVERHEAT, predict_calls |-> 0,
              X |-> <<>>]
        ELSE IF is_motion_detected
        THEN [ret |-> DIMMER_MOTION_DETECTED, predict_calls |-> 0,
              X |-> <<>>]
        ELSE IF predict(model_clf, X) = 1
        THEN [ret |-> MAX_OUTPUT_SAFETY_RAIN_FOG, predict_calls |-> 1,
              X |-> X]
        ELSE [ret |-> OFF_NO_MOTION, predict_calls |-> 1, X |-> X]

\* the chain with the two outcomes of the motion rule exchanged
decide_motion_inverted(weather_features, is_motion_detected, model_clf, health_status) ==
    LET is_night_time ==
            IF "is_night_time" \in DOMAIN weather_features
            THEN weather_features.is_night_time ELSE FALSE
        X == [i \in 1..Len(FEATURES) |-> weather_features[FEATURES[i]]]
    IN  IF ~is_night_time
        THEN [ret |-> OFF_DAYTIME, predict_calls |-> 0, X |-> <<>>]
        ELSE IF health_status.is_overheated
        THEN [ret |-> MAX_OUTPUT_FAILSAFE_OVERHEAT, predict_calls |-> 0,
              X |-> <<>>]
        ELSE IF predict(model_clf, X) = 1
        THEN [ret |-> MAX_OUTPUT_SAFETY_RAIN_FOG, predict_calls |-> 1,
              X |-> X]
        ELSE IF ~is_motion_detected
        THEN [ret |-> DIMMER_MOTION_DETECTED, predict_calls |-> 1, X |-> X]
        ELSE [ret |-> OFF_NO_MOTION, predict_calls |-> 1, X |-> X]

\* the chain with the prediction made ahead of every rule
decide_predict_eagerly(weather_features, is_motion_detected, model_clf, health_status) ==
    LET is_night_time ==
            IF "is_night_time" \in DOMAIN weather_features
            THEN weather_features.is_night_time ELSE FALSE
        X == [i \in 1..Len(FEATURES) |-> weather_features[FEATURES[i]]]
        max_light_required == predict(model_clf, X)
    IN  IF ~is_night_time
        THEN [ret |-> OFF_DAYTIME, predict_calls |-> 1, X |-> X]
        ELSE IF health_status.is_overheated
        THEN [ret |-> MAX_OUTPUT_FAILSAFE_OVERHEAT, predict_calls |-> 1,
              X |-> X]
        ELSE IF max_light_required = 1
        THEN [ret |-> MAX_OUTPUT_SAFETY_RAIN_FOG, predict_calls |-> 1,
              X |-> X]
        ELSE IF is_motion_detected
        THEN [ret |-> DIMMER_MOTION_DETECTED, predict_calls |-> 1, X |-> X]
        ELSE [ret |-> OFF_NO_MOTION, predict_calls |-> 1, X |-> X]

\* determine_lamp_action(...): ret is the returned action, predict_calls
\* the number of calls of model_clf.predict, X the row handed to it
determine_lamp_action(weather_features, is_motion_detected, model_clf, health_status) ==
    LET is_night_time ==
            IF "is_night_time" \in DOMAIN weather_features
            THEN weather_features.is_night_time ELSE FALSE
        X == [i \in 1..Len(FEATURES) |-> weather_features[FEATURES[i]]]
        max_light_required == predict(model_clf, X)
    IN  IF ~is_night_time
        THEN [ret |-> OFF_DAYTIME, predict_calls |-> 0, X |-> <<>>]
        ELSE IF health_status.is_overheated
        THEN [ret |-> MAX_OUTPUT_FAILSAFE_OVERHEAT, predict_calls |-> 0,
              X |-> <<>>]
        ELSE IF max_light_required = 1
        THEN [ret |-> MAX_OUTPUT_SAFETY_RAIN_FOG, predict_calls |-> 1,
              X |-> X]
        ELSE IF is_motion_detected
        THEN [ret |-> DIMMER_MOTION_DETECTED, predict_calls |-> 1, X |-> X]
        ELSE [ret |-> OFF_NO_MOTION, predict_calls |-> 1, X |-> X]

-----------------------------------------------------------------------------
(* Flask route, app.py lines 176-227 *)

\* control_lamp(): clf is the module-level model, client_data the parsed
\* request body, reply/current/astro the provider's answer, now the wall
\* clock, temp the sensor's draw and rounded its reported value
control_lamp(clf, client_data, reply, current, astro, now, temp, rounded) ==
    IF ~clf.loaded
    THEN [response |-> [status |-> "error",
                        message |-> "AI Model not loaded."],
          http_status |-> 500, decide_calls |-> 0, predict_calls |-> 0,
          X |-> <<>>]
    ELSE IF client_data.json = "null"
    THEN \* None.get(...): AttributeError, except Exception
         [response |-> [status |-> "error",
                        message |-> "An internal server error occurred"],
          http_status |-> 500, decide_calls |-> 0, predict_calls |-> 0,
          X |-> <<>>]
    ELSE
    LET is_motion_detected ==
            IF "is_motion_detected" \in DOMAIN client_data
            THEN client_data.is_motion_detected ELSE FALSE
        weather_result == fetch_real_time_weather(reply, current, astro, now)
    IN  IF weather_result.status = "error"
        THEN [response |-> weather_result,
              http_status |-> 500, decide_calls |-> 0, predict_calls |-> 0,
              X |-> <<>>]
        ELSE
        LET weather_features == weather_result.data
            astronomy        == weather_result.astronomy
            health_status    == read_health_sensor(temp, rounded)
            decision         == determine_lamp_action(weather_features,
                                    is_motion_detected, clf, health_status)
        IN  [response |->
                 [status |-> "success",
                  lamp_action |-> decision.ret,
                  system_health |-> health_status,
                  weather_data_for_chart |-> weather_features,
                  inputs_used |->
                      [is_night_time |-> weather_features.is_night_time,
                       is_motion_detected |-> is_motion_detected,
                       location |-> LOCATION,
                       sunrise |-> astronomy.sunrise,
                       sunset |-> astronomy.sunset]],
             http_status |-> 200, decide_calls |-> 1,
             predict_calls |-> decision.predict_calls, X |-> decision.X]

-----------------------------------------------------------------------------
(* Environment of a cycle *)

\* the model after the joblib.load of lines 43-51: not loaded, or a
\* classifier that answers 0 or 1 on this cycle's feature row
Models == {[loaded |-> FALSE, predicts |-> 0]}
          \cup {[loaded |-> TRUE, predicts |-> p] : p \in 0..1}

\* request.get_json(): null, an object without the key, or with it
Bodies == {[json |-> "null"], [json |-> "object"]}
          \cup {[json |-> "object", is_motion_detected |-> b] :
                    b \in BOOLEAN}

Replies == {"ok", "timeout", "no_uv"}

Text(h, m, p) == [hour |-> h, minute |-> m, marker |-> p]

\* sunrise/sunset texts of a cycle: "06:00 AM", "07:00 PM", "19:00"
CycleTexts == {Text(6, 0, "AM"), Text(7, 0, "PM"), Text(19, 0, "")}

\* wall clocks of a cycle, around midnight, the turn of the year and
\* the leap day
Nows == {Instant(2024, 6, 1, 2, 0, 0),
         Instant(2024, 1, 1, 0, 5, 0),
         Instant(2024, 3, 1, 12, 0, 0),
         Instant(2024, 12, 31, 19, 0, 0)}

\* draws of the sensor: the ends of its range and the neighbourhood of
\* the safety ceiling
Temps == {SENSOR_MIN_C, 6000, SENSOR_MAX_C}
         \cup (MAX_SAFE_TEMP_C - TempSpread)..(MAX_SAFE_TEMP_C + TempSpread)

Visibilities == {50, 150}

\* all texts "<hour>:<minute> <marker>" of the direct calls
TimeTexts == {Text(h, m, p) : h \in 0..MaxHourText, m \in {0, 59, 60},
                              p \in {"AM", "PM", ""}}

\* wall clocks of the direct calls, on 2024-06-01
NightNows == {Instant(2024, 6, 1, h, m, 0) :
                  h \in {0, 3, 6, 7, 12, 18, 19, 23}, m \in {0, 59}}

NoResponse == [status |-> "none"]
NoNight == [called |-> FALSE, raised |-> FALSE, ret |-> FALSE]

-----------------------------------------------------------------------------
(* One decision cycle of control_lamp *)

Init ==
    /\ model \in Models
    /\ body \in Bodies
    /\ api \in Replies
    /\ vis_km \in Visibilities
    /\ lag \in 0..MaxLag
    /\ today \in Nows
    /\ sunrise \in CycleTexts
    /\ sunset \in CycleTexts
    /\ current_temp \in Temps
    /\ pc = "idle"
    /\ response = NoResponse
    /\ http_status = 0
    /\ decide_calls = 0
    /\ predict_calls = 0
    /\ X_weather = <<>>
    /\ night = NoNight

\* the provider's data['current'] of this cycle
Current == ProviderCurrent(api, today - lag * 900, vis_km)
\* the provider's astro part of this cycle
Astro == [sunrise |-> sunrise, sunset |-> sunset]

ControlLamp ==
    /\ pc = "idle"
    /\ \E rounded \in Round1(current_temp) :
         LET r == control_lamp(model, body, api, Current, Astro, today,
                               current_temp, rounded)
         IN  /\ response' = r.response
             /\ http_status' = r.http_status
             /\ decide_calls' = r.decide_calls
             /\ predict_calls' = r.predict_calls
             /\ X_weather' = r.X
    /\ pc' = "done"
    /\ UNCHANGED <<model, body, api, vis_km, lag, today, sunrise, sunset,
                   current_temp, night>>

Next == ControlLamp

Spec == Init /\ [][Next]_vars

-----------------------------------------------------------------------------
(* Direct calls of is_currently_night *)

InitNight ==
    /\ model = [loaded |-> TRUE, predicts |-> 0]
    /\ body = [json |-> "object"]
    /\ api = "ok"
    /\ vis_km = 100
    /\ lag = 0
    /\ today \in NightNows
    /\ sunrise \in TimeTexts
    /\ sunset \in TimeTexts
    /\ current_temp = SENSOR_MIN_C
    /\ pc = "idle"
    /\ response = NoResponse
    /\ http_status = 0
    /\ decide_calls = 0
    /\ predict_calls = 0
    /\ X_weather = <<>>
    /\ night = NoNight

NightCall ==
    /\ pc = "idle"
    /\ LET r == is_currently_night(today, sunrise, sunset)
       IN  night' = [called |-> TRUE, raised |-> r.raised, ret |-> r.ret]
    /\ pc' = "done"
    /\ UNCHANGED <<model, body, api, vis_km, lag, today, sunrise, sunset,
                   current_temp, response, http_status, decide_calls,
                   predict_calls, X_weather>>

NextNight == NightCall

SpecNight == InitNight /\ [][NextNight]_vars

-----------------------------------------------------------------------------
(* What a finished cycle shows of the call of determine_lamp_action *)

\* the handler returned and determine_lamp_action was called in the cycle
Decided == pc = "done" /\ decide_calls = 1

\* the arguments of that call, as the response reports them
ArgNight == response.weather_data_for_chart.is_night_time
ArgOverheated == response.system_health.is_overheated
ArgMotion == response.inputs_used.is_motion_detected
ArgClassifierOutput == model.predicts

\* the cycle could not get a reading: transport failure or missing field
WeatherFailed == api # "ok"

-----------------------------------------------------------------------------
(* Properties *)

C2_NightOverheatIsFailsafe ==
    (Decided /\ ArgNight /\ ArgOverheated)
        => response.lamp_action = MAX_OUTPUT_FAILSAFE_OVERHEAT

C2_Witness ==
    /\ Decided /\ ArgNight /\ ArgOverheated /\ ~ArgMotion
    /\ ArgClassifierOutput = 1
    /\ response.lamp_action = MAX_OUTPUT_FAILSAFE_OVERHEAT

\* C3: a call at night, not overheated, whose classifier answers 1 on the
\* 7 numeric features returns the rain/fog override, for both motions.
C3_NightRainFogIsMax ==
    (Decided /\ ArgNight /\ ~ArgOverheated /\ ArgClassifierOutput = 1)
        => /\ response.lamp_action = MAX_OUTPUT_SAFETY_RAIN_FOG
           /\ Len(X_weather) = 7
           /\ \A i \in 1..7 :
                X_weather[i] = response.weather_data_for_chart[FEATURES[i]]

C3_Witness ==
    /\ Decided /\ ArgNight /\ ~ArgOverheated /\ ArgClassifierOutput = 1
    /\ ArgMotion
    /\ response.lamp_action = MAX_OUTPUT_SAFETY_RAIN_FOG

\* C4: a call at night, not overheated, whose classifier answers 0 returns
\* DIMMER_MOTION_DETECTED exactly when motion is true, else OFF_NO_MOTION.
C4_MotionRule ==
    (Decided /\ ArgNight /\ ~ArgOverheated /\ ArgClassifierOutput = 0)
        => /\ (response.lamp_action = DIMMER_MOTION_DETECTED) <=> ArgMotion
           /\ ~ArgMotion => response.lamp_action = OFF_NO_MOTION

C4_Witness ==
    /\ Decided /\ ArgNight /\ ~ArgOverheated /\ ArgClassifierOutput = 0
    /\ ~ArgMotion
    /\ response.lamp_action = OFF_NO_MOTION

\* C5: whenever the health reading of a cycle is overheated, the lamp
\* action is the overheat failsafe, whatever the night flag, the
\* classifier and the motion.
C5_OverheatAlwaysFailsafe ==
    (Decided /\ ArgOverheated)
        => response.lamp_action = MAX_OUTPUT_FAILSAFE_OVERHEAT

\* "the text parses as a 12-hour AM/PM time"
Parses(text) ==
    /\ 1 <= text.hour /\ text.hour <= 12
    /\ 0 <= text.minute /\ text.minute <= 59
    /\ text.marker = "AM" \/ text.marker = "PM"

\* the second of the day a parsed text names: 12 AM is midnight, 12 PM noon
TextSecond(text) ==
    LET hour24 == IF text.marker = "AM"
                  THEN (IF text.hour = 12 THEN 0 ELSE text.hour)
                  ELSE (IF text.hour = 12 THEN 12 ELSE text.hour + 12)
    IN  hour24 * 3600 + text.minute * 60

\* midnight of the day of an instant
Midnight(t) == t - (t % 86400)
HourOf(t) == (t % 86400) \div 3600

\* C6: is_currently_night never raises; when both texts parse it returns
\* true iff now < sunrise_today or now >= sunset_today; when either fails
\* to parse it returns true iff hour(now) < 7 or hour(now) >= 19.
C6_NightWindow ==
    night.called =>
        /\ ~night.raised
        /\ (Parses(sunrise) /\ Parses(sunset)) =>
              (night.ret <=>
                  (\/ today < Midnight(today) + TextSecond(sunrise)
                   \/ today >= Midnight(today) + TextSecond(sunset)))
        /\ (~Parses(sunrise) \/ ~Parses(sunset)) =>
              (night.ret <=> (HourOf(today) < 7 \/ HourOf(today) >= 19))

C6_Witness ==
    /\ night.called /\ ~night.raised
    /\ Parses(sunrise) /\ ~Parses(sunset)
    /\ HourOf(today) = 3
    /\ night.ret

\* C7: a cycle produces a lamp action (status 'success' with lamp_action)
\* only if the classifier is loaded and the weather fetch returned a
\* reading; a cycle whose classifier is unavailable or whose fetch failed
\* answers status 'error' without lamp_action, and determine_lamp_action
\* is not called in it.
C7_NoActionWithoutPreconditions ==
    pc = "done" =>
        /\ ("lamp_action" \in DOMAIN response \/ response.status = "success")
              => (model.loaded /\ ~WeatherFailed)
        /\ (~model.loaded \/ WeatherFailed)
              => /\ response.status = "error"
                 /\ "lamp_action" \notin DOMAIN response
                 /\ decide_calls = 0

C7_Witness ==
    /\ pc = "done"
    /\ model.loaded /\ api = "timeout" /\ body.json = "object"
    /\ response.status = "error"
    /\ "lamp_action" \notin DOMAIN response
    /\ decide_calls = 0

\* C8: in the HealthStatus of a response, is_overheated is true exactly
\* when current_temp_c is greater than max_safe_temp_c.
C8_OverheatedMatchesReportedTemp ==
    (pc = "done" /\ "system_health" \in DOMAIN response)
        => (response.system_health.is_overheated
              <=> (response.system_health.current_temp_c
                     > response.system_health.max_safe_temp_c))

\* C9: the day_of_year of a cycle's feature vector is the ordinal day of
\* the date of now, the clock the night window of the cycle is taken on.
C9_DayOfYearIsOfNow ==
    (pc = "done" /\ "weather_data_for_chart" \in DOMAIN response)
        => response.weather_data_for_chart.day_of_year
             = calculate_day_of_year(fromtimestamp(today))

\* C10: in a call of determine_lamp_action predict is invoked exactly
\* once when is_night is true and is_overheated false, and not at all
\* when the daytime gate or the failsafe decides.
C10_PredictShortCircuit ==
    Decided =>
        predict_calls = (IF ArgNight /\ ~ArgOverheated THEN 1 ELSE 0)

C10_Witness ==
    /\ Decided /\ ArgNight /\ ArgOverheated
    /\ ArgClassifierOutput = 0
    /\ predict_calls = 0

====
